---- MODULE Spec2Model ----
(***************************************************************************)
(* Position index and run splitting of docx.document.Document:             *)
(* _parse flattens the block/run tree into a table of rows, highlight      *)
(* resolves global character ranges against that table and                 *)
(* _highlight_basic splits the addressed run into head / mid / tail.       *)
(***************************************************************************)
EXTENDS Integers, Sequences, FiniteSets, TLC

(***************************************************************************)
(* Bounds of the explored inputs.                                          *)
(***************************************************************************)
\* size of the largest tree whose text is explored with noise characters
MaxParse == 9
\* parse() calls in a row
MaxParses == 2

\* size of an explored input: 3 for each paragraph (top-level or in a cell),
\* 2 for each run, 1 for each character, 4 for each range of the list
MaxInput == 17

\* numpy.nan: the missing value of a column or of a range endpoint
NaN == -1

Alphabet == <<"A", "B", "C", "D", "E", "F", "G", "H", "I", "J", "K", "L", "M", "N", "O", "P">>
Colors == {"BLUE"}
None == "None"

(***************************************************************************)
(* Generic helpers.                                                        *)
(***************************************************************************)
Min(a, b) == IF a < b THEN a ELSE b
Max(a, b) == IF a > b THEN a ELSE b

BoundedSeq(S, n) == UNION {[1..k -> S] : k \in 0..n}

RECURSIVE Concat(_)
Concat(ss) == IF ss = <<>> THEN <<>> ELSE Head(ss) \o Concat(Tail(ss))

RECURSIVE SumSeq(_)
SumSeq(s) == IF s = <<>> THEN 0 ELSE Head(s) + SumSeq(Tail(s))

(***************************************************************************)
(* The document tree.  A run carries its text, its highlight colour and,   *)
(* as a history field, the number of the highlight call that created it    *)
(* as a mid piece (0: any other run).  A paragraph is a sequence of runs,  *)
(* a cell a sequence of paragraphs, a table row a sequence of cells.       *)
(***************************************************************************)
Run(text, hl, call) == [text |-> text, hl |-> hl, call |-> call]
Paragraph(runs) == [kind |-> "paragraph", runs |-> runs, rows |-> <<>>]
Table(rows) == [kind |-> "table", runs |-> <<>>, rows |-> rows]

\* Document.paragraphs / Document.tables: the top-level ones, in order
RECURSIVE BlocksOfKind(_, _, _)
BlocksOfKind(t, kind, i) ==
    IF i > Len(t) THEN <<>>
    ELSE (IF t[i].kind = kind THEN <<i>> ELSE <<>>) \o BlocksOfKind(t, kind, i + 1)

paragraphs(t) == BlocksOfKind(t, "paragraph", 1)
tables(t) == BlocksOfKind(t, "table", 1)

\* the runs of a tree in document order, each with its place: block b and,
\* in a table, row r, cell c, paragraph p of the cell (0 for a top-level
\* paragraph), and its position k in its paragraph (all 1-based)
PlacedRuns(runs, b, r, c, p) ==
    [k \in 1..Len(runs) |-> [run |-> runs[k], b |-> b, r |-> r, c |-> c, p |-> p, k |-> k]]

FlatRuns(t) ==
    Concat([b \in 1..Len(t) |->
        IF t[b].kind = "paragraph" THEN PlacedRuns(t[b].runs, b, 0, 0, 0)
        ELSE Concat([r \in 1..Len(t[b].rows) |->
                 Concat([c \in 1..Len(t[b].rows[r]) |->
                     Concat([p \in 1..Len(t[b].rows[r][c]) |->
                         PlacedRuns(t[b].rows[r][c][p], b, r, c, p)])])])])

\* the global run-text concatenation
Text(t) ==
    LET F == FlatRuns(t) IN Concat([i \in 1..Len(F) |-> F[i].run.text])

(***************************************************************************)
(* _parse: one row per run, in document order.                             *)
(***************************************************************************)
DfRow(string, block_ID, table_ID, row_ID, cell_ID, paragraph_ID, run_ID) ==
    [string |-> string, block_ID |-> block_ID, table_ID |-> table_ID,
     row_ID |-> row_ID, cell_ID |-> cell_ID, paragraph_ID |-> paragraph_ID,
     run_ID |-> run_ID, len_string |-> NaN, last_num |-> NaN, first_num |-> NaN]

\* ParagraphRows with run_ID counted from 1
ParagraphRows_RunIDFromOne(runs, block_count, paragraph_count) ==
    [k \in 1..Len(runs) |->
        DfRow(runs[k].text, block_count, NaN, NaN, NaN, paragraph_count, k)]

ParagraphRows(runs, block_count, paragraph_count) ==
    [k \in 1..Len(runs) |->
        DfRow(runs[k].text, block_count, NaN, NaN, NaN, paragraph_count, k - 1)]

CellRows(cell, block_count, table_count, row_count, cell_count) ==
    Concat([p \in 1..Len(cell) |->
        [k \in 1..Len(cell[p]) |->
            DfRow(cell[p][k].text, block_count, table_count, row_count,
                  cell_count, p - 1, k - 1)]])

TableRows(rows, block_count, table_count) ==
    Concat([r \in 1..Len(rows) |->
        Concat([c \in 1..Len(rows[r]) |->
            CellRows(rows[r][c], block_count, table_count, r - 1, c - 1)])])

RECURSIVE ParseBlocks(_, _, _, _)
ParseBlocks(t, i, paragraph_count, table_count) ==
    IF i > Len(t) THEN <<>>
    ELSE IF t[i].kind = "paragraph"
         THEN ParagraphRows(t[i].runs, i - 1, paragraph_count)
              \o ParseBlocks(t, i + 1, paragraph_count + 1, table_count)
         ELSE TableRows(t[i].rows, i - 1, table_count)
              \o ParseBlocks(t, i + 1, paragraph_count, table_count + 1)

ParagraphColumns == {"string", "run_ID", "block_ID", "paragraph_ID"}
TableColumns == ParagraphColumns \cup {"table_ID", "row_ID", "cell_ID"}

\* the columns of the concatenated frame: those of every df_tmp, also of an
\* empty one; a table only makes a df_tmp per paragraph of a cell
ParseColumns(t) ==
    UNION {IF t[i].kind = "paragraph" THEN ParagraphColumns
           ELSE IF \E r \in 1..Len(t[i].rows) :
                     \E c \in 1..Len(t[i].rows[r]) : Len(t[i].rows[r][c]) > 0
                THEN TableColumns ELSE {} : i \in 1..Len(t)}

_parse(t) == [columns |-> ParseColumns(t), rows |-> ParseBlocks(t, 1, 0, 0)]

(***************************************************************************)
(* highlight, preamble: len_string, last_num (cumulative sum) and          *)
(* first_num (last_num of the previous row + 1; 1 for row 0).              *)
(***************************************************************************)
\* cumsum that forgets to accumulate
cumsum_NotCumulative(lens) == lens

RECURSIVE cumsum(_)
cumsum(lens) ==
    IF lens = <<>> THEN <<>>
    ELSE LET front == cumsum(SubSeq(lens, 1, Len(lens) - 1))
         IN  Append(front, (IF front = <<>> THEN 0 ELSE front[Len(front)])
                           + lens[Len(lens)])

\* Bounds whose first_num lacks the + 1
Bounds_NoPlusOne(df) ==
    LET lens == [i \in 1..Len(df.rows) |-> Len(df.rows[i].string)]
        last == cumsum(lens)
    IN  [columns |-> df.columns \cup {"len_string", "last_num", "first_num"},
         rows |-> [i \in 1..Len(df.rows) |->
                     [df.rows[i] EXCEPT !.len_string = lens[i],
                                        !.last_num = last[i],
                                        !.first_num = IF i = 1 THEN 1
                                                      ELSE last[i - 1]]]]

Bounds(df) ==
    LET lens == [i \in 1..Len(df.rows) |-> Len(df.rows[i].string)]
        last == cumsum(lens)
    IN  [columns |-> df.columns \cup {"len_string", "last_num", "first_num"},
         rows |-> [i \in 1..Len(df.rows) |->
                     [df.rows[i] EXCEPT !.len_string = lens[i],
                                        !.last_num = last[i],
                                        !.first_num = IF i = 1 THEN 1
                                                      ELSE last[i - 1] + 1]]]

(***************************************************************************)
(* highlight, range location.  Row indices are 0-based as in the frame;    *)
(* row idx is df.rows[idx + 1].                                            *)
(***************************************************************************)
RECURSIVE CoveredFrom(_, _, _, _)
CoveredFrom(df, start_num, end_num, idx) ==
    IF idx >= Len(df.rows) THEN <<>>
    ELSE (IF ~(start_num > df.rows[idx + 1].last_num)
             /\ ~(end_num < df.rows[idx + 1].first_num)
          THEN <<idx>> ELSE <<>>)
         \o CoveredFrom(df, start_num, end_num, idx + 1)

coverd_idx_of(df, start_num, end_num) == CoveredFrom(df, start_num, end_num, 0)

start_pos_relative_of(df, idx, start_num) ==
    Max(start_num - df.rows[idx + 1].first_num, 0)

\* end_pos_relative without the + 1 of the exclusive slice end
end_pos_relative_of_NoPlusOne(df, idx, end_num) ==
    Max(end_num - df.rows[idx + 1].first_num, 0)

end_pos_relative_of(df, idx, end_num) ==
    Max(end_num - df.rows[idx + 1].first_num, 0) + 1

(***************************************************************************)
(* The run primitives of the object model and Python's slicing.            *)
(***************************************************************************)
\* s[a:b] for 0 <= a, 0 <= b: out-of-range bounds are clamped
Slice(s, a, b) == SubSeq(s, Min(a, Len(s)) + 1, Min(b, Len(s)))

\* r.insert_run_before(...) for the run r at position k: r moves to k + 1
InsertRunBefore(runs, k, new) ==
    SubSeq(runs, 1, k - 1) \o <<new>> \o SubSeq(runs, k, Len(runs))

\* r.delete_run() for the run r at position k
DeleteRun(runs, k) == SubSeq(runs, 1, k - 1) \o SubSeq(runs, k + 1, Len(runs))

(***************************************************************************)
(* _highlight_basic: the split of the run r = runs[k] (1-based k).         *)
(* head and tail are inserted without a highlight, mid with the colour.    *)
(***************************************************************************)
\* SplitRun that inserts mid before head
SplitRun_MidFirst(runs, k, start_pos_relative, end_pos_relative, highlight_color, call) ==
    LET r == runs[k]
        head == Slice(r.text, 0, start_pos_relative)
        mid == Slice(r.text, start_pos_relative, end_pos_relative)
        tail == Slice(r.text, end_pos_relative, Len(r.text))
        runs1 == InsertRunBefore(runs, k, Run(mid, highlight_color, call))
        k1 == k + 1
        runs2 == IF head # <<>> THEN InsertRunBefore(runs1, k1, Run(head, None, 0))
                 ELSE runs1
        k2 == IF head # <<>> THEN k1 + 1 ELSE k1
        runs3 == IF tail # <<>> THEN InsertRunBefore(runs2, k2, Run(tail, None, 0))
                 ELSE runs2
        k3 == IF tail # <<>> THEN k2 + 1 ELSE k2
    IN  DeleteRun(runs3, k3)

\* SplitRun whose tail starts one character late
SplitRun_TailSkipsChar(runs, k, start_pos_relative, end_pos_relative, highlight_color, call) ==
    LET r == runs[k]
        head == Slice(r.text, 0, start_pos_relative)
        mid == Slice(r.text, start_pos_relative, end_pos_relative)
        tail == Slice(r.text, end_pos_relative + 1, Len(r.text))
        runs1 == IF head # <<>> THEN InsertRunBefore(runs, k, Run(head, None, 0))
                 ELSE runs
        k1 == IF head # <<>> THEN k + 1 ELSE k
        runs2 == InsertRunBefore(runs1, k1, Run(mid, highlight_color, call))
        k2 == k1 + 1
        runs3 == IF tail # <<>> THEN InsertRunBefore(runs2, k2, Run(tail, None, 0))
                 ELSE runs2
        k3 == IF tail # <<>> THEN k2 + 1 ELSE k2
    IN  DeleteRun(runs3, k3)

SplitRun(runs, k, start_pos_relative, end_pos_relative, highlight_color, call) ==
    LET r == runs[k]
        head == Slice(r.text, 0, start_pos_relative)
        mid == Slice(r.text, start_pos_relative, end_pos_relative)
        tail == Slice(r.text, end_pos_relative, Len(r.text))
        runs1 == IF head # <<>> THEN InsertRunBefore(runs, k, Run(head, None, 0))
                 ELSE runs
        k1 == IF head # <<>> THEN k + 1 ELSE k
        runs2 == InsertRunBefore(runs1, k1, Run(mid, highlight_color, call))
        k2 == k1 + 1
        runs3 == IF tail # <<>> THEN InsertRunBefore(runs2, k2, Run(tail, None, 0))
                 ELSE runs2
        k3 == IF tail # <<>> THEN k2 + 1 ELSE k2
    IN  DeleteRun(runs3, k3)

\* how often the run_ID of the later rows is incremented: once for a
\* non-empty head, once for a non-empty tail
Shift(text, start_pos_relative, end_pos_relative) ==
    (IF Slice(text, 0, start_pos_relative) # <<>> THEN 1 ELSE 0)
    + (IF Slice(text, end_pos_relative, Len(text)) # <<>> THEN 1 ELSE 0)

\* pandas' == on a column: a missing value equals nothing
ColEq(a, b) == a # NaN /\ b # NaN /\ a = b

\* the rows whose run_ID the paragraph branch increments
ParagraphMask(df, idx, i) ==
    /\ ColEq(df.rows[i + 1].paragraph_ID, df.rows[idx + 1].paragraph_ID)
    /\ i > idx

\* the rows whose run_ID the table branch increments
TableMask(df, idx, i) ==
    /\ ColEq(df.rows[i + 1].table_ID, df.rows[idx + 1].table_ID)
    /\ ColEq(df.rows[i + 1].row_ID, df.rows[idx + 1].row_ID)
    /\ ColEq(df.rows[i + 1].cell_ID, df.rows[idx + 1].cell_ID)
    /\ ColEq(df.rows[i + 1].paragraph_ID, df.rows[idx + 1].paragraph_ID)
    /\ i > idx

\* blocktype that takes every row for a paragraph row
blocktype_ParagraphOnly(df, idx) == "paragraph"

blocktype(df, idx) ==
    IF "table_ID" \notin df.columns THEN "paragraph"
    ELSE IF df.rows[idx + 1].table_ID = NaN THEN "paragraph"
    ELSE "table"

Renumber(df, idx, shift) ==
    [df EXCEPT !.rows = [i \in 1..Len(df.rows) |->
        IF (IF blocktype(df, idx) = "paragraph" THEN ParagraphMask(df, idx, i - 1)
            ELSE TableMask(df, idx, i - 1))
        THEN [df.rows[i] EXCEPT !.run_ID = @ + shift]
        ELSE df.rows[i]]]

IndexError(t, df) == [tree |-> t, df |-> df, err |-> "IndexError"]

HighlightParagraph(t, df, idx, start_pos_relative, end_pos_relative, highlight_color, call) ==
    LET row == df.rows[idx + 1]
        ps == paragraphs(t)
    IN  IF row.paragraph_ID >= Len(ps) THEN IndexError(t, df)
        ELSE LET b == ps[row.paragraph_ID + 1]
                 runs == t[b].runs
             IN  IF row.run_ID >= Len(runs) THEN IndexError(t, df)
                 ELSE [tree |-> [t EXCEPT ![b].runs =
                                    SplitRun(runs, row.run_ID + 1, start_pos_relative,
                                             end_pos_relative, highlight_color, call)],
                       df |-> Renumber(df, idx,
                                  Shift(runs[row.run_ID + 1].text,
                                        start_pos_relative, end_pos_relative)),
                       err |-> None]

HighlightTable(t, df, idx, start_pos_relative, end_pos_relative, highlight_color, call) ==
    LET row == df.rows[idx + 1]
        ts == tables(t)
    IN  IF row.table_ID >= Len(ts) THEN IndexError(t, df)
        ELSE LET b == ts[row.table_ID + 1]
                 rows == t[b].rows
             IN  IF row.row_ID >= Len(rows) THEN IndexError(t, df)
                 ELSE IF row.cell_ID >= Len(rows[row.row_ID + 1])
                 THEN IndexError(t, df)
                 ELSE IF row.paragraph_ID
                         >= Len(rows[row.row_ID + 1][row.cell_ID + 1])
                 THEN IndexError(t, df)
                 ELSE LET runs == rows[row.row_ID + 1][row.cell_ID + 1]
                                      [row.paragraph_ID + 1]
                      IN  IF row.run_ID >= Len(runs) THEN IndexError(t, df)
                          ELSE [tree |-> [t EXCEPT
                                    ![b].rows[row.row_ID + 1][row.cell_ID + 1]
                                             [row.paragraph_ID + 1] =
                                       SplitRun(runs, row.run_ID + 1,
                                                start_pos_relative, end_pos_relative,
                                                highlight_color, call)],
                                df |-> Renumber(df, idx,
                                          Shift(runs[row.run_ID + 1].text,
                                                start_pos_relative, end_pos_relative)),
                                err |-> None]

_highlight_basic(t, df, idx, start_pos_relative, end_pos_relative, highlight_color, call) ==
    IF blocktype(df, idx) = "paragraph"
    THEN HighlightParagraph(t, df, idx, start_pos_relative, end_pos_relative,
                            highlight_color, call)
    ELSE HighlightTable(t, df, idx, start_pos_relative, end_pos_relative,
                        highlight_color, call)

(***************************************************************************)
(* highlight as a function of the tree and its arguments: the result of    *)
(* the whole call.                                                         *)
(***************************************************************************)
\* the nan test on the start endpoint only
HasNaN_StartOnly(p) == p[1] = NaN

\* the validity test that also rejects start = end
Invalid_OrEqual(p) == p[1] >= p[2]

\* nan in pos
HasNaN(p) == NaN \in {p[1], p[2]}

\* pos[0] > pos[1]
Invalid(p) == p[1] > p[2]

RECURSIVE HighlightRows(_, _, _, _, _, _, _)
HighlightRows(t, d, idxs, sn, en, color, call) ==
    IF idxs = <<>> THEN [tree |-> t, df |-> d, err |-> None]
    ELSE LET r == _highlight_basic(t, d, Head(idxs),
                                   start_pos_relative_of(d, Head(idxs), sn),
                                   end_pos_relative_of(d, Head(idxs), en),
                                   color, call)
         IN  IF r.err # None THEN r
             ELSE HighlightRows(r.tree, r.df, Tail(idxs), sn, en, color, call)

RECURSIVE HighlightRanges(_, _, _, _, _)
HighlightRanges(t, d, pl, color, call) ==
    IF pl = <<>> THEN [tree |-> t, df |-> d, err |-> None]
    ELSE LET p == Head(pl)
         IN  IF HasNaN(p) THEN HighlightRanges(t, d, Tail(pl), color, call)
             ELSE IF Invalid(p) THEN [tree |-> t, df |-> d, err |-> "ValueError"]
             ELSE LET r == HighlightRows(t, d, coverd_idx_of(d, p[1] + 1, p[2] + 1),
                                         p[1] + 1, p[2] + 1, color, call)
                  IN  IF r.err # None THEN r
                      ELSE HighlightRanges(r.tree, r.df, Tail(pl), color, call)

highlight(t, pl, color, call) ==
    IF "string" \notin _parse(t).columns
    THEN [tree |-> t, df |-> _parse(t), err |-> "KeyError"]
    ELSE HighlightRanges(t, Bounds(_parse(t)), pl, color, call)

(***************************************************************************)
(* The explored documents: every tree of size at most MaxInput, built by   *)
(* appending paragraphs in document order.  The text of a run is the slice *)
(* of Alphabet at the run's global offset, so that every character of a    *)
(* document is distinct and names its global position.  No run is          *)
(* highlighted.                                                            *)
(***************************************************************************)
\* the paragraphs of a tree, top-level or in a cell
DocParas(t) ==
    SumSeq([i \in 1..Len(t) |->
        IF t[i].kind = "paragraph" THEN 1
        ELSE SumSeq([r \in 1..Len(t[i].rows) |->
                 SumSeq([c \in 1..Len(t[i].rows[r]) |-> Len(t[i].rows[r][c])])])])

\* the size of a tree
Size(t) == 3 * DocParas(t) + 2 * Len(FlatRuns(t)) + Len(Text(t))

\* the run lengths of a paragraph whose runs have size at most w
RECURSIVE RunLengths(_)
RunLengths(w) ==
    {<<>>} \cup UNION {{<<l>> \o ls : ls \in RunLengths(w - 2 - l)} : l \in 0..(w - 2)}

ParagraphShapes == [w \in 0..MaxInput |-> RunLengths(w)]

TextAt(off, len) == SubSeq(Alphabet, off + 1, off + len)

\* the runs of a paragraph of run lengths ls whose text begins at offset off
ParaText(ls, off) ==
    [k \in 1..Len(ls) |-> Run(TextAt(off + SumSeq(SubSeq(ls, 1, k - 1)), ls[k]), None, 0)]

\* where the next paragraph goes: a top-level paragraph, the first cell of a
\* new table, or, after a table, a new row, a new cell of its last row or
\* the last cell of its last row
Places(d) ==
    {"paragraph", "table"}
    \cup (IF d # <<>> /\ d[Len(d)].kind = "table" THEN {"row", "cell", "cell_paragraph"}
          ELSE {})

\* the tree d with the paragraph of runs `runs` appended at `place`
Place(d, runs, place) ==
    LET n == Len(d)
        r == Len(d[n].rows)
        c == Len(d[n].rows[r])
    IN  CASE place = "paragraph" -> Append(d, Paragraph(runs))
          [] place = "table" -> Append(d, Table(<< << <<runs>> >> >>))
          [] place = "row" -> [d EXCEPT ![n].rows = Append(@, << <<runs>> >>)]
          [] place = "cell" -> [d EXCEPT ![n].rows[r] = Append(@, <<runs>>)]
          [] place = "cell_paragraph" -> [d EXCEPT ![n].rows[r][c] = Append(@, runs)]

\* a tree under construction, with its size and the length of its text
Sized(t, size, chars) == [tree |-> t, size |-> size, chars |-> chars]

\* the run lengths of the paragraphs that still fit after d
Fitting(d) == IF d.size + 3 <= MaxInput THEN ParagraphShapes[MaxInput - d.size - 3] ELSE {}

\* d with one more paragraph, in every way
Extend(d) ==
    {Sized(Place(d.tree, ParaText(ls, d.chars), place),
           d.size + 3 + 2 * Len(ls) + SumSeq(ls), d.chars + SumSeq(ls)) :
        place \in Places(d.tree), ls \in Fitting(d)}

\* the trees of S and all their extensions
RECURSIVE Grow(_)
Grow(S) == IF S = {} THEN {} ELSE S \cup Grow(UNION {Extend(d) : d \in S})

SizedDocuments == Grow({Sized(<<>>, 0, 0)})

Documents == {d.tree : d \in SizedDocuments}

\* range endpoints on the tree t: every position of its text, the position
\* after its last character, and the undefined endpoint
Endpoints(t) == 0..Len(Text(t)) \cup {NaN}
Ranges(t) == Endpoints(t) \X Endpoints(t)

\* the position lists explored on the tree t
PositionListsFor(t) == BoundedSeq(Ranges(t), (MaxInput - Size(t)) \div 4)

(***************************************************************************)
(* State.                                                                  *)
(***************************************************************************)
VARIABLES
    tree,             \* the document tree (self.element)
    dataframe,        \* self._dataframe: <<>> for None, else <<frame>>
    pc,               \* control point of highlight
    position_list,    \* argument of the running highlight call
    highlight_color,  \* argument of the running highlight call
    pos_i,            \* 1-based position of `pos` in position_list
    coverd_idx,       \* the rows of `pos` not yet processed
    err,              \* the exception that ended the call, or None
    tree0,            \* history: the tree when the call began
    calls,            \* history: number of highlight calls begun
    dataframe_without_sc,  \* self._dataframe_without_sc: <<>> for None, else <<frame>>
    used,             \* history: number of ranges of the calls that have ended
    parsed            \* history: the tree and the tables left by every parse() so far

vars == <<tree, dataframe, pc, position_list, highlight_color, pos_i,
          coverd_idx, err, tree0, calls, dataframe_without_sc, used, parsed>>

\* what highlight leaves alone
others == <<dataframe_without_sc, used, parsed>>

Init ==
    /\ tree \in Documents
    /\ dataframe = <<>>
    /\ pc = "idle"
    /\ position_list = <<>>
    /\ highlight_color = None
    /\ pos_i = 0
    /\ coverd_idx = <<>>
    /\ err = None
    /\ tree0 = tree
    /\ calls = 0
    /\ dataframe_without_sc = <<>>
    /\ used = 0
    /\ parsed = <<>>

df == dataframe[1]
pos == position_list[pos_i]
start_num == pos[1] + 1
end_num == pos[2] + 1

(***************************************************************************)
(* highlight(position_list, highlight_color), step by step.                *)
(***************************************************************************)
\* an entry that parses only when the facade has no index yet
IndexOnEntry_WhenUnparsed(self_dataframe, t) ==
    IF self_dataframe = <<>> THEN Bounds(_parse(t)) ELSE self_dataframe[1]

\* self._parse(); df = self._dataframe and its bounds columns, whatever index
\* the facade had
IndexOnEntry(self_dataframe, t) == Bounds(_parse(t))

\* entry: _parse and the bounds columns
HighlightCall(pl, color) ==
    /\ pc = "idle"
    /\ "string" \in _parse(tree).columns
    /\ dataframe' = <<IndexOnEntry(dataframe, tree)>>
    /\ position_list' = pl
    /\ highlight_color' = color
    /\ pos_i' = 1
    /\ pc' = "for_pos"
    /\ tree0' = tree
    /\ calls' = calls + 1
    /\ UNCHANGED <<tree, coverd_idx, err>>
    /\ UNCHANGED others

\* entry on a tree without any paragraph: the frame has no column `string`
HighlightNoColumns(pl, color) ==
    /\ pc = "idle"
    /\ "string" \notin _parse(tree).columns
    /\ dataframe' = <<_parse(tree)>>
    /\ position_list' = pl
    /\ highlight_color' = color
    /\ pc' = "raised"
    /\ err' = "KeyError"
    /\ tree0' = tree
    /\ calls' = calls + 1
    /\ UNCHANGED <<tree, pos_i, coverd_idx>>
    /\ UNCHANGED others

\* for pos in position_list: if nan in pos: continue
SkipNaN ==
    /\ pc = "for_pos"
    /\ pos_i <= Len(position_list)
    /\ HasNaN(pos)
    /\ pos_i' = pos_i + 1
    /\ UNCHANGED <<tree, dataframe, pc, position_list, highlight_color,
                   coverd_idx, err, tree0, calls>>
    /\ UNCHANGED others

\* if pos[0] > pos[1]: raise ValueError
RaiseInvalid ==
    /\ pc = "for_pos"
    /\ pos_i <= Len(position_list)
    /\ ~HasNaN(pos)
    /\ Invalid(pos)
    /\ pc' = "raised"
    /\ err' = "ValueError"
    /\ UNCHANGED <<tree, dataframe, position_list, highlight_color, pos_i,
                   coverd_idx, tree0, calls>>
    /\ UNCHANGED others

\* coverd_idx = df[~(start_num > last_num) & ~(end_num < first_num)].index
LocateRows ==
    /\ pc = "for_pos"
    /\ pos_i <= Len(position_list)
    /\ ~HasNaN(pos)
    /\ ~Invalid(pos)
    /\ coverd_idx' = coverd_idx_of(df, start_num, end_num)
    /\ pc' = "for_idx"
    /\ UNCHANGED <<tree, dataframe, position_list, highlight_color, pos_i,
                   err, tree0, calls>>
    /\ UNCHANGED others

SplitResult ==
    LET idx == Head(coverd_idx)
    IN  _highlight_basic(tree, df, idx,
                         start_pos_relative_of(df, idx, start_num),
                         end_pos_relative_of(df, idx, end_num),
                         highlight_color, calls)

\* for idx in coverd_idx: df = doc._highlight_basic(...)
SplitRow ==
    /\ pc = "for_idx"
    /\ coverd_idx # <<>>
    /\ SplitResult.err = None
    /\ tree' = SplitResult.tree
    /\ dataframe' = <<SplitResult.df>>
    /\ coverd_idx' = Tail(coverd_idx)
    /\ UNCHANGED <<pc, position_list, highlight_color, pos_i, err, tree0, calls>>
    /\ UNCHANGED others

\* a run lookup of _highlight_basic fails
SplitRowRaises ==
    /\ pc = "for_idx"
    /\ coverd_idx # <<>>
    /\ SplitResult.err # None
    /\ pc' = "raised"
    /\ err' = SplitResult.err
    /\ UNCHANGED <<tree, dataframe, position_list, highlight_color, pos_i,
                   coverd_idx, tree0, calls>>
    /\ UNCHANGED others

\* the rows of pos are done: next pos
NextRange ==
    /\ pc = "for_idx"
    /\ coverd_idx = <<>>
    /\ pos_i' = pos_i + 1
    /\ pc' = "for_pos"
    /\ UNCHANGED <<tree, dataframe, position_list, highlight_color,
                   coverd_idx, err, tree0, calls>>
    /\ UNCHANGED others

\* return doc
Return ==
    /\ pc = "for_pos"
    /\ pos_i > Len(position_list)
    /\ pc' = "done"
    /\ UNCHANGED <<tree, dataframe, position_list, highlight_color, pos_i,
                   coverd_idx, err, tree0, calls>>
    /\ UNCHANGED others

Next ==
    \/ /\ pc = "idle"
       /\ \E pl \in PositionListsFor(tree), color \in Colors : HighlightCall(pl, color)
    \/ /\ pc = "idle"
       /\ \E pl \in PositionListsFor(tree), color \in Colors :
              HighlightNoColumns(pl, color)
    \/ SkipNaN
    \/ RaiseInvalid
    \/ LocateRows
    \/ SplitRow
    \/ SplitRowRaises
    \/ NextRange
    \/ Return

Spec == Init /\ [][Next]_vars

(***************************************************************************)
(* Repeated highlight calls.  highlight returns a new Document on the same *)
(* element: the next call is made on the facade itself, which keeps the    *)
(* index the call left, or on the returned facade, which has none.  The    *)
(* explored sequences are those within MaxInput, the size of the current   *)
(* tree plus 4 for each range of the calls so far, on the documents that   *)
(* leave room for one range; only the first call may have no range.        *)
(***************************************************************************)
Terminal == pc \in {"done", "raised"}

InitReuse == Init /\ Size(tree) + 4 <= MaxInput

\* the position lists explored on the tree t after n ranges of earlier calls
PositionListsAfter(t, n, first) ==
    {pl \in BoundedSeq(Ranges(t), (MaxInput - Size(t)) \div 4 - n) : first \/ pl # <<>>}

RoomForRange == Size(tree) + 4 * (used + Len(position_list) + 1) <= MaxInput

\* the caller keeps the facade for the next call
ReuseSelf ==
    /\ Terminal
    /\ RoomForRange
    /\ pc' = "idle"
    /\ err' = None
    /\ used' = used + Len(position_list)
    /\ UNCHANGED <<tree, dataframe, position_list, highlight_color, pos_i,
                   coverd_idx, tree0, calls, dataframe_without_sc, parsed>>

\* the caller goes on with the Document that highlight returned
ReuseReturned ==
    /\ pc = "done"
    /\ RoomForRange
    /\ pc' = "idle"
    /\ dataframe' = <<>>
    /\ dataframe_without_sc' = <<>>
    /\ used' = used + Len(position_list)
    /\ UNCHANGED <<tree, position_list, highlight_color, pos_i, coverd_idx, err,
                   tree0, calls, parsed>>

NextReuse ==
    \/ /\ pc = "idle"
       /\ \E pl \in PositionListsAfter(tree, used, calls = 0), color \in Colors :
              HighlightCall(pl, color)
    \/ /\ pc = "idle"
       /\ \E pl \in PositionListsAfter(tree, used, calls = 0), color \in Colors :
              HighlightNoColumns(pl, color)
    \/ SkipNaN
    \/ RaiseInvalid
    \/ LocateRows
    \/ SplitRow
    \/ SplitRowRaises
    \/ NextRange
    \/ Return
    \/ ReuseSelf
    \/ ReuseReturned

SpecReuse == InitReuse /\ [][NextReuse]_vars

(***************************************************************************)
(* utilities.rmSpecailChar and Document.parse.  A character outside ASCII  *)
(* is written by its code point.                                           *)
(***************************************************************************)
SPECIALCHARS_EN ==
    <<"~", "!", "@", "#", "$", "%", "^", "&", "*", "(", ")", "_", "-", "+", "=",
      "{", "}", "[", "]", "|", "\\", "`", ":", "\\", "\"", "\\", "'", "<", ">",
      "?", "/", ".", ",", ";">>

SPECIALCHARS_CH ==
    <<"U+00B7", "~", "U+FF01", "@", "#", "U+FFE5", "%", "U+2026", "U+2026", "&",
      "*", "U+FF08", "U+FF09", "U+2014", "U+2014", "+", "-", "=", "{", "}", "|",
      "U+3010", "U+3011", "U+FF1A", "U+201C", "U+2018", "U+FF1B", "U+FF1A",
      "U+201D", "U+2019", "U+300A", "U+300B", "U+FF0C", "U+3002", "U+FF1F",
      "U+3001">>

SPECIAL_SEP == <<" ", "\n", "\t", "U+3000">>

\* s.replace(c, '')
replace(s, c) == LET Keep(x) == x # c IN SelectSeq(s, Keep)

\* for c in cs: s = s.replace(c, '')
RECURSIVE ReplaceEach(_, _)
ReplaceEach(s, cs) ==
    IF cs = <<>> \/ s = <<>> THEN s
    ELSE LET r == replace(s, Head(cs))
         IN  IF Len(r) = 0 THEN r ELSE ReplaceEach(r, Tail(cs))

\* a filter that leaves the separators in
rmSpecailChar_KeepsSeparators(s) == ReplaceEach(s, SPECIALCHARS_EN \o SPECIALCHARS_CH)

rmSpecailChar(s) ==
    ReplaceEach(ReplaceEach(s, SPECIALCHARS_EN \o SPECIALCHARS_CH), SPECIAL_SEP)

\* a row with its string filtered and its row label i in the column `index`
Filtered(row, i) == [index |-> i] @@ [row EXCEPT !.string = rmSpecailChar(@)]

\* a filtered frame that keeps the rows left without text
_removeSpecailChar_KeepsEmptyRows(frame) ==
    [columns |-> frame.columns \cup {"index"},
     rows |-> [i \in 1..Len(frame.rows) |->
                  Filtered(frame.rows[i], i - 1)]]

\* the frame with the column `string` filtered, the rows left without text
\* dropped and the former row label kept in the column `index`
_removeSpecailChar(frame) ==
    LET filtered == [i \in 1..Len(frame.rows) |->
                        Filtered(frame.rows[i], i - 1)]
        NotEmpty(row) == row.string # <<>>
    IN  [columns |-> frame.columns \cup {"index"}, rows |-> SelectSeq(filtered, NotEmpty)]

\* parse(): self._parse(), then self._removeSpecailChar(), as a function of the
\* facade's fields; on a tree without any paragraph the frame has no column
\* `string` and _removeSpecailChar raises before it assigns
parse_Accumulating(self_dataframe, self_dataframe_without_sc, t) ==
    LET old == IF self_dataframe = <<>> THEN <<>> ELSE self_dataframe[1].rows
        frame == [_parse(t) EXCEPT !.rows = old \o @]
    IN  IF "string" \notin frame.columns
        THEN [dataframe |-> <<frame>>, dataframe_without_sc |-> self_dataframe_without_sc,
              err |-> "KeyError"]
        ELSE [dataframe |-> <<frame>>, dataframe_without_sc |-> <<_removeSpecailChar(frame)>>,
              err |-> None]

parse(self_dataframe, self_dataframe_without_sc, t) ==
    LET frame == _parse(t)
    IN  IF "string" \notin frame.columns
        THEN [dataframe |-> <<frame>>, dataframe_without_sc |-> self_dataframe_without_sc,
              err |-> "KeyError"]
        ELSE [dataframe |-> <<frame>>, dataframe_without_sc |-> <<_removeSpecailChar(frame)>>,
              err |-> None]

(***************************************************************************)
(* The documents explored by parse(): the trees of size at most MaxParse   *)
(* with every text over Chars, two content characters and one noise        *)
(* character of each of the three lists.                                   *)
(***************************************************************************)
Chars == {"a", "b", ",", "U+FF0C", " "}

AlphabetIndex(ch) == CHOOSE k \in 1..Len(Alphabet) : Alphabet[k] = ch

\* the runs with the character at global position k replaced by w[k]
RetextRuns(runs, w) ==
    [k \in 1..Len(runs) |->
        [runs[k] EXCEPT !.text = [j \in 1..Len(@) |-> w[AlphabetIndex(@[j])]]]]

Retext(t, w) ==
    [b \in 1..Len(t) |->
        IF t[b].kind = "paragraph" THEN Paragraph(RetextRuns(t[b].runs, w))
        ELSE Table([r \in 1..Len(t[b].rows) |->
                 [c \in 1..Len(t[b].rows[r]) |->
                     [p \in 1..Len(t[b].rows[r][c]) |->
                         RetextRuns(t[b].rows[r][c][p], w)]]])]

ParseDocuments ==
    UNION {{Retext(d.tree, w) : w \in [1..d.chars -> Chars]} :
              d \in {x \in SizedDocuments : x.size <= MaxParse}}

InitParse ==
    /\ tree \in ParseDocuments
    /\ dataframe = <<>>
    /\ pc = "idle"
    /\ position_list = <<>>
    /\ highlight_color = None
    /\ pos_i = 0
    /\ coverd_idx = <<>>
    /\ err = None
    /\ tree0 = tree
    /\ calls = 0
    /\ dataframe_without_sc = <<>>
    /\ used = 0
    /\ parsed = <<>>

ParseResult == parse(dataframe, dataframe_without_sc, tree)

Tables(r) == [tree |-> tree, dataframe |-> r.dataframe, without_sc |-> r.dataframe_without_sc]

\* parse() returns
Parse ==
    /\ pc = "idle"
    /\ Len(parsed) < MaxParses
    /\ ParseResult.err = None
    /\ dataframe' = ParseResult.dataframe
    /\ dataframe_without_sc' = ParseResult.dataframe_without_sc
    /\ err' = None
    /\ parsed' = Append(parsed, Tables(ParseResult))
    /\ UNCHANGED <<tree, pc, position_list, highlight_color, pos_i, coverd_idx,
                   tree0, calls, used>>

\* parse() raises
ParseRaises ==
    /\ pc = "idle"
    /\ Len(parsed) < MaxParses
    /\ ParseResult.err # None
    /\ dataframe' = ParseResult.dataframe
    /\ dataframe_without_sc' = ParseResult.dataframe_without_sc
    /\ err' = ParseResult.err
    /\ parsed' = Append(parsed, Tables(ParseResult))
    /\ UNCHANGED <<tree, pc, position_list, highlight_color, pos_i, coverd_idx,
                   tree0, calls, used>>

NextParse ==
    \/ Parse
    \/ ParseRaises

SpecParse == InitParse /\ [][NextParse]_vars

(***************************************************************************)
(* Vocabulary of the properties.                                           *)
(***************************************************************************)
\* for every character of Text(t), the position in FlatRuns(t) of its run
CharRun(t) ==
    LET F == FlatRuns(t)
    IN  Concat([i \in 1..Len(F) |-> [j \in 1..Len(F[i].run.text) |-> i]])

\* the 0-based positions of the characters in runs that satisfy Test
CharsWhere(t, Test(_)) ==
    LET F == FlatRuns(t)
        C == CharRun(t)
    IN  {k - 1 : k \in {n \in 1..Len(C) : Test(F[C[n]].run)}}

\* the 0-based global position of the first character of run j
Offset(F, j) == SumSeq([i \in 1..(j - 1) |-> Len(F[i].run.text)])

\* the tree without its runs
Skeleton(t) ==
    [b \in 1..Len(t) |->
        IF t[b].kind = "paragraph" THEN Paragraph(<<>>)
        ELSE Table([r \in 1..Len(t[b].rows) |->
                 [c \in 1..Len(t[b].rows[r]) |->
                     [p \in 1..Len(t[b].rows[r][c]) |-> <<>>]]])]

\* a run with its container, without its position in the paragraph
Contained(F) ==
    [i \in 1..Len(F) |-> [run |-> F[i].run, b |-> F[i].b, r |-> F[i].r,
                          c |-> F[i].c, p |-> F[i].p]]

\* the call has a single range, both endpoints defined, start <= end
SingleValid ==
    /\ Len(position_list) = 1
    /\ position_list[1][1] # NaN /\ position_list[1][2] # NaN
    /\ position_list[1][1] <= position_list[1][2]

range_start == position_list[1][1]
range_end == position_list[1][2]

\* the range s..e lies inside run j of F
InsideRun(F, j, s, e) == Offset(F, j) <= s /\ e < Offset(F, j) + Len(F[j].run.text)

\* the pieces that replace a run of text x split at the 0-based inclusive
\* relative range a..b: head, mid, tail, an empty head or tail omitted
ExpectedPieces(x, a, b, color, call) ==
    (IF a > 0 THEN <<Run(SubSeq(x, 1, a), None, 0)>> ELSE <<>>)
    \o <<Run(SubSeq(x, a + 1, b + 1), color, call)>>
    \o (IF b + 1 < Len(x) THEN <<Run(SubSeq(x, b + 2, Len(x)), None, 0)>> ELSE <<>>)

(***************************************************************************)
(* C1: after highlight([(start,end)], color) with a single valid range     *)
(* within the text returns, the characters that lie in runs given the      *)
(* highlight by this call are exactly those at positions start..end.       *)
(***************************************************************************)
C1_ExactlyTheRangeIsHighlighted ==
    (Terminal /\ err # "KeyError" /\ SingleValid /\ range_end < Len(Text(tree0)))
    => /\ pc = "done"
       /\ LET ByThisCall(r) == r.call = calls
          IN  CharsWhere(tree, ByThisCall) = range_start..range_end

(***************************************************************************)
(* C2: a single highlight of a range inside one run replaces that run, at  *)
(* its position in its paragraph, by head, mid, tail in this order (empty  *)
(* head or tail omitted) whose texts add up to the run's text; only mid    *)
(* carries the highlight and every other run is unchanged.                 *)
(***************************************************************************)
C2_RunReplacedByHeadMidTail ==
    \A j \in 1..Len(FlatRuns(tree0)) :
        (Terminal /\ SingleValid /\ InsideRun(FlatRuns(tree0), j, range_start, range_end))
        => LET F0 == FlatRuns(tree0)
               pieces == ExpectedPieces(F0[j].run.text,
                                        range_start - Offset(F0, j),
                                        range_end - Offset(F0, j),
                                        highlight_color, calls)
           IN  /\ pc = "done"
               /\ Concat([i \in 1..Len(pieces) |-> pieces[i].text]) = F0[j].run.text
               /\ Skeleton(tree) = Skeleton(tree0)
               /\ Contained(FlatRuns(tree)) =
                     SubSeq(Contained(F0), 1, j - 1)
                     \o [i \in 1..Len(pieces) |->
                            [Contained(F0)[j] EXCEPT !.run = pieces[i]]]
                     \o SubSeq(Contained(F0), j + 1, Len(F0))

\* a range strictly inside a run has been split into three pieces
C2_Witness ==
    /\ pc = "done"
    /\ SingleValid
    /\ \E j \in 1..Len(FlatRuns(tree0)) :
          /\ Offset(FlatRuns(tree0), j) < range_start
          /\ range_end + 1 < Offset(FlatRuns(tree0), j) + Len(FlatRuns(tree0)[j].run.text)
    /\ Len(FlatRuns(tree)) = Len(FlatRuns(tree0)) + 2

(***************************************************************************)
(* C3: the concatenation of all run texts in document order is the same    *)
(* before, during and after a highlight call: no split inserts, drops or   *)
(* reorders a character.                                                   *)
(***************************************************************************)
C3_TextPreserved == Text(tree) = Text(tree0)

\* a call with two valid ranges has returned and has split runs
C3_Witness ==
    /\ pc = "done"
    /\ Len(position_list) = 2
    /\ \A i \in 1..2 : ~HasNaN(position_list[i]) /\ ~Invalid(position_list[i])
    /\ Len(FlatRuns(tree)) > Len(FlatRuns(tree0)) + 1

(***************************************************************************)
(* C4: after a call whose ranges are all valid returns, every character    *)
(* at the positions start..end of every range lies in a highlighted run.   *)
(***************************************************************************)
C4_EveryRangeHighlighted ==
    (pc = "done" /\ \A i \in 1..Len(position_list) :
                        ~HasNaN(position_list[i]) /\ ~Invalid(position_list[i]))
    => LET Highlighted(r) == r.hl # None
       IN  \A i \in 1..Len(position_list) :
               \A k \in position_list[i][1]..position_list[i][2] :
                   k < Len(Text(tree)) => k \in CharsWhere(tree, Highlighted)

(***************************************************************************)
(* C5: a range with end < start raises the invalid-range error when the    *)
(* loop meets it and aborts the call: the tree is then the tree that the   *)
(* call with only the preceding ranges produces (nothing rolled back, no   *)
(* later range applied), the unchanged tree when no range that is applied  *)
(* precedes it; a call that returns has met no such range.                 *)
(***************************************************************************)
C5_InvalidRangeAborts ==
    /\ err = "ValueError" =>
          /\ pc = "raised"
          /\ pos_i \in 1..Len(position_list)
          /\ position_list[pos_i][1] # NaN /\ position_list[pos_i][2] # NaN
          /\ position_list[pos_i][2] < position_list[pos_i][1]
          /\ LET before == highlight(tree0, SubSeq(position_list, 1, pos_i - 1),
                                     highlight_color, calls)
             IN  before.err = None /\ tree = before.tree
          /\ (\A i \in 1..(pos_i - 1) :
                  NaN \in {position_list[i][1], position_list[i][2]}) => tree = tree0
    /\ pc = "done" =>
          \A i \in 1..Len(position_list) :
              \/ NaN \in {position_list[i][1], position_list[i][2]}
              \/ position_list[i][1] <= position_list[i][2]

\* the error is raised after an earlier range of the list has split a run
C5_Witness ==
    /\ err = "ValueError"
    /\ pos_i = 2
    /\ tree # tree0

(***************************************************************************)
(* C6: a range with an undefined endpoint is skipped: the outcome of the   *)
(* call (tree, index, error or none) is the outcome of the same call with  *)
(* those ranges removed from the list.                                     *)
(***************************************************************************)
C6_UndefinedEndpointSkipped ==
    Terminal =>
        LET Defined(p) == p[1] # NaN /\ p[2] # NaN
            without == highlight(tree0, SelectSeq(position_list, Defined),
                                 highlight_color, calls)
        IN  /\ tree = without.tree
            /\ err = without.err
            /\ dataframe = <<without.df>>

\* a call whose list holds an undefined range and a range that split a run
C6_Witness ==
    /\ pc = "done"
    /\ \E i \in 1..Len(position_list) : NaN \in {position_list[i][1], position_list[i][2]}
    /\ tree # tree0

(***************************************************************************)
(* C7: a single range inside one run of a table cell splits exactly the    *)
(* run at the row's table_ID / row_ID / cell_ID / paragraph_ID / run_ID,   *)
(* whatever top-level paragraphs precede or follow the table; no other     *)
(* block, in particular no top-level paragraph, is touched.                *)
(***************************************************************************)
C7_TableRunLocatedByTableCoordinates ==
    \A j \in 1..Len(FlatRuns(tree0)) :
        (/\ Terminal
         /\ SingleValid
         /\ InsideRun(FlatRuns(tree0), j, range_start, range_end)
         /\ tree0[FlatRuns(tree0)[j].b].kind = "table")
        => LET F0 == FlatRuns(tree0)
               f == F0[j]
               row == df.rows[j]
               pieces == ExpectedPieces(f.run.text, range_start - Offset(F0, j),
                                        range_end - Offset(F0, j),
                                        highlight_color, calls)
               old == tree0[f.b].rows[f.r][f.c][f.p]
           IN  /\ pc = "done"
               /\ row.table_ID = Cardinality({i \in 1..(f.b - 1) : tree0[i].kind = "table"})
               /\ row.row_ID = f.r - 1
               /\ row.cell_ID = f.c - 1
               /\ row.paragraph_ID = f.p - 1
               /\ row.run_ID = f.k - 1
               /\ Len(tree) = Len(tree0)
               /\ \A i \in 1..Len(tree0) : i # f.b => tree[i] = tree0[i]
               /\ tree[f.b] = [tree0[f.b] EXCEPT !.rows[f.r][f.c][f.p] =
                                  SubSeq(old, 1, f.k - 1) \o pieces
                                  \o SubSeq(old, f.k + 1, Len(old))]

\* the split run is in a table that follows a top-level paragraph with runs
C7_Witness ==
    /\ pc = "done"
    /\ SingleValid
    /\ Len(tree0) = 2
    /\ tree0[1].kind = "paragraph" /\ Len(tree0[1].runs) > 0
    /\ tree0[2].kind = "table"
    /\ tree[2] # tree0[2]
    /\ \E j \in 1..Len(FlatRuns(tree0)) :
          /\ InsideRun(FlatRuns(tree0), j, range_start, range_end)
          /\ FlatRuns(tree0)[j].b = 2

(***************************************************************************)
(* C8 (Scenario C): one table cell, one paragraph, one run "AB".           *)
(***************************************************************************)
ScenarioC == <<Table(<< << << <<Run(<<"A", "B">>, None, 0)>> >> >> >>)>>

\* text and highlight of the runs of the cell's paragraph
ScenarioCRuns ==
    [k \in 1..Len(tree[1].rows[1][1][1]) |->
        <<tree[1].rows[1][1][1][k].text, tree[1].rows[1][1][1][k].hl>>]

\* C8, as claimed: highlight([(0,1)], BLUE) splits the run into "A"
\* (highlighted) followed by "B" (not highlighted).
C8_ScenarioC_AsClaimed ==
    (tree0 = ScenarioC /\ position_list = << <<0, 1>> >> /\ highlight_color = "BLUE"
     /\ Terminal)
    => /\ pc = "done"
       /\ ScenarioCRuns = << <<(<<"A">>), "BLUE">>, <<(<<"B">>), None>> >>

\* C8, amended: both endpoints are inclusive, so highlight([(0,1)], BLUE)
\* replaces the run by the single highlighted run "AB"; it is
\* highlight([(0,0)], BLUE) that gives "A" (highlighted) followed by "B".
C8_ScenarioC ==
    /\ (tree0 = ScenarioC /\ position_list = << <<0, 1>> >> /\ highlight_color = "BLUE"
        /\ Terminal)
       => /\ pc = "done"
          /\ ScenarioCRuns = << <<(<<"A", "B">>), "BLUE">> >>
    /\ (tree0 = ScenarioC /\ position_list = << <<0, 0>> >> /\ highlight_color = "BLUE"
        /\ Terminal)
       => /\ pc = "done"
          /\ ScenarioCRuns = << <<(<<"A">>), "BLUE">>, <<(<<"B">>), None>> >>

C8_Witness ==
    /\ tree0 = ScenarioC
    /\ position_list = << <<0, 1>> >>
    /\ highlight_color = "BLUE"
    /\ pc = "done"
    /\ tree # tree0

(***************************************************************************)
(* C9: in the index built by highlight, row 0 has first_num = 1, every     *)
(* adjacent pair has rows[i].last_num + 1 = rows[i+1].first_num and        *)
(* last_num is the cumulative text length through the row, also with       *)
(* empty runs; when just built, the strings are the run texts of the tree. *)
(***************************************************************************)
IndexBuilt == Len(dataframe) > 0 /\ "first_num" \in df.columns

C9_IndexContiguous ==
    IndexBuilt =>
        /\ Len(df.rows) > 0 => df.rows[1].first_num = 1
        /\ \A i \in 1..(Len(df.rows) - 1) :
               df.rows[i].last_num + 1 = df.rows[i + 1].first_num
        /\ \A i \in 1..Len(df.rows) :
               df.rows[i].last_num = SumSeq([j \in 1..i |-> Len(df.rows[j].string)])
        /\ (pc = "for_pos" /\ pos_i = 1) =>
               [i \in 1..Len(df.rows) |-> df.rows[i].string]
                   = [i \in 1..Len(FlatRuns(tree)) |-> FlatRuns(tree)[i].run.text]

\* a freshly built index with an empty run between two non-empty ones
C9_Witness ==
    /\ IndexBuilt
    /\ pc = "for_pos" /\ pos_i = 1
    /\ Len(df.rows) = 3
    /\ df.rows[1].string # <<>> /\ df.rows[2].string = <<>> /\ df.rows[3].string # <<>>

(***************************************************************************)
(* C10, as claimed: every row of the index has first_num <= last_num,      *)
(* also the rows of runs with empty text.                                  *)
(***************************************************************************)
C10_FirstNotAfterLast_AsClaimed ==
    IndexBuilt => \A i \in 1..Len(df.rows) : df.rows[i].first_num <= df.rows[i].last_num

(***************************************************************************)
(* C10, amended: every row has last_num - first_num + 1 = len_string =     *)
(* the length of its string: first_num <= last_num for a row with text,    *)
(* first_num = last_num + 1 for the row of a run with empty text.          *)
(***************************************************************************)
C10_BoundsSpanTheString ==
    IndexBuilt =>
        \A i \in 1..Len(df.rows) :
            /\ df.rows[i].len_string = Len(df.rows[i].string)
            /\ df.rows[i].last_num - df.rows[i].first_num + 1 = df.rows[i].len_string
            /\ df.rows[i].string # <<>> => df.rows[i].first_num <= df.rows[i].last_num
            /\ df.rows[i].string = <<>> => df.rows[i].first_num = df.rows[i].last_num + 1

\* an index with the row of an empty run after a row with text
C10_Witness ==
    /\ IndexBuilt
    /\ \E i \in 2..Len(df.rows) :
          df.rows[i].string = <<>> /\ df.rows[i - 1].string # <<>>

(***************************************************************************)
(* C11: two parse() calls with the same document tree leave identical      *)
(* Position Index tables and identical noise-filtered tables.              *)
(***************************************************************************)
C11_ReparseIdentical ==
    \A i, j \in 1..Len(parsed) :
        parsed[i].tree = parsed[j].tree
        => /\ parsed[i].dataframe = parsed[j].dataframe
           /\ parsed[i].without_sc = parsed[j].without_sc

\* parse() has run twice on a tree with rows, one of them dropped by the filter
C11_Witness ==
    /\ Len(parsed) = 2
    /\ parsed[2].without_sc # <<>>
    /\ parsed[2].without_sc[1].rows # <<>>
    /\ Len(parsed[2].without_sc[1].rows) < Len(parsed[2].dataframe[1].rows)

(***************************************************************************)
(* Vocabulary of the parse() properties.                                   *)
(***************************************************************************)
NoiseChars ==
    {SPECIALCHARS_EN[k] : k \in 1..Len(SPECIALCHARS_EN)}
    \cup {SPECIALCHARS_CH[k] : k \in 1..Len(SPECIALCHARS_CH)}
    \cup {SPECIAL_SEP[k] : k \in 1..Len(SPECIAL_SEP)}

IsNoise(ch) == ch \in NoiseChars

\* the concatenation of the strings of a frame's rows, in row order
RawConcatenation(frame) == Concat([i \in 1..Len(frame.rows) |-> frame.rows[i].string])

NoiseCount(s) == Cardinality({k \in 1..Len(s) : IsNoise(s[k])})

(***************************************************************************)
(* C12: the noise-filtered table built by parse() has one row per retained *)
(* character of the raw concatenation: as many rows as the concatenation   *)
(* has characters that are not noise, strictly increasing raw indices, and *)
(* in every row the character found at the row's raw index.                *)
(***************************************************************************)
C12_FilteredMappingPerCharacter ==
    (dataframe_without_sc # <<>> /\ dataframe # <<>>)
    => LET raw == RawConcatenation(dataframe[1])
           M == dataframe_without_sc[1].rows
       IN  /\ Len(M) = Len(raw) - NoiseCount(raw)
           /\ \A i, j \in 1..Len(M) : i < j => M[i].index < M[j].index
           /\ \A i \in 1..Len(M) :
                 /\ M[i].index < Len(raw)
                 /\ M[i].string = <<raw[M[i].index + 1]>>

(***************************************************************************)
(* C13: the noise filter returns its argument with every noise character   *)
(* (a character of the two punctuation lists, space, newline, tab or       *)
(* full-width space) removed and every other character kept in order; its  *)
(* output holds no noise character and is a fixed point of the filter.     *)
(* Checked on the filter's result for every row string, as parse() stores  *)
(* it in the filtered table (a row left without text is dropped).          *)
(***************************************************************************)
FilteredString(i) ==
    LET M == dataframe_without_sc[1].rows
        at == {k \in 1..Len(M) : M[k].index = i - 1}
    IN  IF at = {} THEN <<>> ELSE M[CHOOSE k \in at : TRUE].string

C13_NoiseFilter ==
    (dataframe_without_sc # <<>> /\ dataframe # <<>>)
    => \A i \in 1..Len(dataframe[1].rows) :
           LET s == dataframe[1].rows[i].string
               out == FilteredString(i)
               Content(ch) == ~IsNoise(ch)
           IN  /\ out = SelectSeq(s, Content)
               /\ \A k \in 1..Len(out) : ~IsNoise(out[k])
               /\ rmSpecailChar(out) = out
               /\ rmSpecailChar(rmSpecailChar(s)) = rmSpecailChar(s)

\* a string with a punctuation character between two content characters and
\* a separator has been filtered
C13_Witness ==
    /\ dataframe_without_sc # <<>> /\ dataframe # <<>>
    /\ \E i \in 1..Len(dataframe[1].rows) :
           /\ \E k \in 1..Len(dataframe[1].rows[i].string) :
                  dataframe[1].rows[i].string[k] = " "
           /\ \E k \in 1..Len(dataframe[1].rows[i].string) :
                  dataframe[1].rows[i].string[k] \in {",", "U+FF0C"}
           /\ FilteredString(i) = <<"b", "a">>

(***************************************************************************)
(* C14: within a highlight call, whenever the next row or the next range   *)
(* is located and when the call returns, the Position Index has exactly    *)
(* one row per run of the current tree, in document order, whose string is *)
(* the run's current text and whose bounds are the cumulative offsets of   *)
(* the current text.                                                       *)
(***************************************************************************)
C14_IndexRederivedAfterSplit ==
    (pc \in {"for_pos", "for_idx", "done"} /\ IndexBuilt)
    => LET F == FlatRuns(tree)
       IN  /\ Len(df.rows) = Len(F)
           /\ \A i \in 1..Len(F) :
                 /\ df.rows[i].string = F[i].run.text
                 /\ df.rows[i].first_num = Offset(F, i) + 1
                 /\ df.rows[i].last_num = Offset(F, i) + Len(F[i].run.text)

(***************************************************************************)
(* C15: during a highlight call every index row that has not itself been   *)
(* split still addresses, through its coordinates, an existing run whose   *)
(* text is the row's string.  The rows split so far are those of the       *)
(* ranges before the current one and, of the current range, the covered    *)
(* rows no longer waiting in coverd_idx.                                   *)
(***************************************************************************)
\* the run that the coordinates of index row i address in the tree t: <<run>>, or
\* <<>> if there is none
Addressed(t, d, i) ==
    LET row == d.rows[i + 1]
        rs == IF blocktype(d, i) = "paragraph"
              THEN IF row.paragraph_ID < Len(paragraphs(t))
                   THEN <<t[paragraphs(t)[row.paragraph_ID + 1]].runs>> ELSE <<>>
              ELSE IF row.table_ID >= Len(tables(t)) THEN <<>>
              ELSE LET b == t[tables(t)[row.table_ID + 1]]
                   IN  IF row.row_ID >= Len(b.rows) THEN <<>>
                       ELSE IF row.cell_ID >= Len(b.rows[row.row_ID + 1]) THEN <<>>
                       ELSE IF row.paragraph_ID >= Len(b.rows[row.row_ID + 1][row.cell_ID + 1])
                            THEN <<>>
                       ELSE <<b.rows[row.row_ID + 1][row.cell_ID + 1][row.paragraph_ID + 1]>>
    IN  IF rs = <<>> THEN <<>>
        ELSE IF row.run_ID >= Len(rs[1]) THEN <<>> ELSE <<rs[1][row.run_ID + 1]>>

\* the rows covered by a range of the running call that has been processed,
\* or by the current range and already taken from coverd_idx
SplitRows ==
    LET Covered(k) ==
            IF HasNaN(position_list[k]) \/ Invalid(position_list[k]) THEN {}
            ELSE LET c == coverd_idx_of(df, position_list[k][1] + 1, position_list[k][2] + 1)
                 IN  {c[n] : n \in 1..Len(c)}
        waiting == {coverd_idx[n] : n \in 1..Len(coverd_idx)}
    IN  UNION {Covered(k) : k \in 1..Min(pos_i - 1, Len(position_list))}
        \cup (IF pc = "for_idx" THEN Covered(pos_i) \ waiting ELSE {})

C15_RenumberingKeepsRowsAddressed ==
    (pc \in {"for_pos", "for_idx", "done"} /\ IndexBuilt)
    => \A i \in 0..(Len(df.rows) - 1) :
           i \notin SplitRows
           => /\ Addressed(tree, df, i) # <<>>
              /\ Addressed(tree, df, i)[1].text = df.rows[i + 1].string

(***************************************************************************)
(* C16: a highlight call whose ranges all have start <= end or an          *)
(* undefined endpoint raises no error: it never ends in the state raised.  *)
(***************************************************************************)
C16_NoErrorOnValidRanges ==
    (\A k \in 1..Len(position_list) :
         HasNaN(position_list[k]) \/ position_list[k][1] <= position_list[k][2])
    => pc # "raised"

(***************************************************************************)
(* C17: the facade is reusable across highlight calls.  Every call,        *)
(* whether it is made on a facade that already holds an index or on one    *)
(* that holds none, first parses the current tree: until the call changes  *)
(* the tree, the index it works on is the parse of the tree as the earlier *)
(* calls left it, with its bounds; and after each call, returned or        *)
(* raised, the facade the call was made on holds an index.                 *)
(***************************************************************************)
C17_EveryCallReparses ==
    /\ (pc \in {"for_pos", "for_idx"} /\ tree = tree0) =>
           dataframe = <<Bounds(_parse(tree))>>
    /\ Terminal => dataframe = <<df>>
    /\ (Terminal /\ err # "KeyError") =>
           {"string", "first_num", "last_num"} \subseteq df.columns

\* a second call has located a row of a run that the first call created
C17_Witness ==
    /\ calls = 2
    /\ pc = "for_idx"
    /\ tree = tree0
    /\ coverd_idx # <<>>
    /\ Head(coverd_idx) >= 1
    /\ Len(df.rows) = Len(FlatRuns(tree))
    /\ \E j \in 1..Len(FlatRuns(tree)) : FlatRuns(tree)[j].run.call = 1

(***************************************************************************)
(* C18: highlighting is monotonic.  In every step of a highlight call, a   *)
(* character that lies in a highlighted run before the step lies in a      *)
(* highlighted run after it: no split removes the highlight of a character.*)
(***************************************************************************)
HighlightedChars(t) == LET Highlighted(r) == r.hl # None IN CharsWhere(t, Highlighted)

C18_HighlightMonotonic ==
    [][HighlightedChars(tree) \subseteq HighlightedChars(tree')]_vars

(***************************************************************************)
(* C19: applying the same highlight range twice converges.  When a call    *)
(* with a single valid range within the text has ended, the same call made *)
(* again on the tree it left gives a tree with the same concatenated text  *)
(* and the same highlight on every character, whatever the runs are.       *)
(***************************************************************************)
\* the highlight of every character of the text, in order
CharHighlights(t) ==
    LET F == FlatRuns(t)
        C == CharRun(t)
    IN  [n \in 1..Len(C) |-> F[C[n]].run.hl]

SecondApplication == highlight(tree, position_list, highlight_color, calls + 1)

C19_SameRangeTwiceConverges ==
    (Terminal /\ SingleValid /\ range_end < Len(Text(tree))) =>
        /\ Text(SecondApplication.tree) = Text(tree)
        /\ CharHighlights(SecondApplication.tree) = CharHighlights(tree)

(***************************************************************************)
(* C20: range location is a closed-interval overlap test.  The rows that   *)
(* a range selects are exactly the rows with NOT(start_num > last_num) AND *)
(* NOT(end_num < first_num), so no row fully before or fully after the     *)
(* range, and they are processed in ascending row order; a range with      *)
(* start = end inside the text selects exactly one row, the string of that *)
(* row has the character at that place, and once the row has been split    *)
(* the character is alone in a run, the mid that this call highlighted.    *)
(***************************************************************************)
\* the 0-based labels, in ascending order, of the rows that overlap
Overlapping(d, sn, en) ==
    LET Overlaps(i) == ~(sn > d.rows[i + 1].last_num) /\ ~(en < d.rows[i + 1].first_num)
    IN  SelectSeq([i \in 1..Len(d.rows) |-> i - 1], Overlaps)

IsSuffix(s, w) == Len(s) <= Len(w) /\ s = SubSeq(w, Len(w) - Len(s) + 1, Len(w))

\* the range in progress is a single character of the text
SingleCharacter == pos[1] = pos[2] /\ pos[1] < Len(Text(tree))

\* the run that holds the character of the range is that character alone,
\* highlighted by this call
IsolatedAsMid ==
    LET r == FlatRuns(tree)[CharRun(tree)[start_num]].run
    IN  r = Run(<<Text(tree)[start_num]>>, highlight_color, calls)

C20_Located ==
    (pc = "for_pos" /\ pc' = "for_idx") =>
        coverd_idx' = Overlapping(df, start_num, end_num)

C20_SingleCharacterRow ==
    (pc = "for_idx" /\ SingleCharacter) =>
        LET rows == Overlapping(df, start_num, end_num)
        IN  /\ Len(rows) = 1
            /\ LET row == df.rows[rows[1] + 1]
               IN  row.string[start_num - row.first_num + 1] = Text(tree)[start_num]
            /\ coverd_idx = <<>> => IsolatedAsMid

C20_ClosedIntervalOverlap ==
    /\ [][C20_Located]_vars
    /\ [](pc = "for_idx" => IsSuffix(coverd_idx, Overlapping(df, start_num, end_num)))
    /\ []C20_SingleCharacterRow

(***************************************************************************)
(* C21: parse linearizes the tree in document order.  The index that       *)
(* _parse has just built has exactly one row per run; block_ID is the      *)
(* 0-based place of the block among the top-level blocks and the rows of a *)
(* block are contiguous; the rows of a paragraph are its runs in order     *)
(* with run_ID dense from 0; the rows of a table follow the nested order   *)
(* rows, cells, paragraphs of the cell, runs, with paragraph_ID local to   *)
(* the cell; a paragraph or cell without runs has no row and a run with    *)
(* empty text has one row with the empty string.                           *)
(***************************************************************************)
\* the index is the one the entry of the call has just parsed
FreshIndex == pc = "for_pos" /\ pos_i = 1

\* the number of blocks of a kind before block b (1-based b)
KindBefore(t, kind, b) == Cardinality({x \in 1..(b - 1) : t[x].kind = kind})

\* the number of runs of a block
RunCount(block) ==
    IF block.kind = "paragraph" THEN Len(block.runs)
    ELSE SumSeq([r \in 1..Len(block.rows) |->
             SumSeq([c \in 1..Len(block.rows[r]) |->
                 SumSeq([p \in 1..Len(block.rows[r][c]) |->
                     Len(block.rows[r][c][p])])])])

\* row x comes before row y in the nested order of a table
NestedBefore(x, y) ==
    \/ x.row_ID < y.row_ID
    \/ x.row_ID = y.row_ID /\ x.cell_ID < y.cell_ID
    \/ x.row_ID = y.row_ID /\ x.cell_ID = y.cell_ID /\ x.paragraph_ID < y.paragraph_ID
    \/ /\ x.row_ID = y.row_ID /\ x.cell_ID = y.cell_ID
       /\ x.paragraph_ID = y.paragraph_ID /\ x.run_ID < y.run_ID

\* rows x and y are runs of the same paragraph
SameParagraph(x, y) ==
    /\ x.block_ID = y.block_ID /\ x.row_ID = y.row_ID
    /\ x.cell_ID = y.cell_ID /\ x.paragraph_ID = y.paragraph_ID

\* the row addresses, by its coordinates, a run of the tree with its text
RowIsRun(t, row) ==
    /\ row.block_ID + 1 \in 1..Len(t)
    /\ LET b == row.block_ID + 1
       IN  IF t[b].kind = "paragraph"
           THEN /\ row.table_ID = NaN /\ row.row_ID = NaN /\ row.cell_ID = NaN
                /\ row.paragraph_ID = KindBefore(t, "paragraph", b)
                /\ row.run_ID + 1 \in 1..Len(t[b].runs)
                /\ row.string = t[b].runs[row.run_ID + 1].text
           ELSE /\ row.table_ID = KindBefore(t, "table", b)
                /\ row.row_ID + 1 \in 1..Len(t[b].rows)
                /\ row.cell_ID + 1 \in 1..Len(t[b].rows[row.row_ID + 1])
                /\ LET cell == t[b].rows[row.row_ID + 1][row.cell_ID + 1]
                   IN  /\ row.paragraph_ID + 1 \in 1..Len(cell)
                       /\ row.run_ID + 1 \in 1..Len(cell[row.paragraph_ID + 1])
                       /\ row.string = cell[row.paragraph_ID + 1][row.run_ID + 1].text

C21_ParseLinearizes ==
    FreshIndex =>
        LET R == df.rows
        IN  /\ \A i \in 1..Len(R) : RowIsRun(tree, R[i])
            /\ \A b \in 1..Len(tree) :
                   Cardinality({i \in 1..Len(R) : R[i].block_ID = b - 1}) = RunCount(tree[b])
            /\ \A i, j \in 1..Len(R) : i < j =>
                   /\ R[i].block_ID <= R[j].block_ID
                   /\ R[i].block_ID = R[j].block_ID =>
                          IF R[i].table_ID = NaN THEN R[i].run_ID < R[j].run_ID
                          ELSE NestedBefore(R[i], R[j])
            /\ \A i \in 1..Len(R) :
                   \/ R[i].run_ID = 0
                   \/ /\ i > 1
                      /\ SameParagraph(R[i - 1], R[i])
                      /\ R[i - 1].run_ID = R[i].run_ID - 1

\* an index was parsed from a tree with a paragraph without runs, a run with
\* empty text in a table cell and a second cell
C21_Witness ==
    /\ FreshIndex
    /\ \E b \in 1..Len(tree) : tree[b].kind = "paragraph" /\ tree[b].runs = <<>>
    /\ \E i \in 1..Len(df.rows) : df.rows[i].string = <<>> /\ df.rows[i].table_ID # NaN
    /\ \E i \in 1..Len(df.rows) : df.rows[i].cell_ID >= 1

====
